---- MODULE Spec2Model ----
(***************************************************************************)
(* Transaction microservice ("Assignment3 microservice/main.go"): the      *)
(* handlers createTransaction, getTransactions, processPayment and pay     *)
(* over the MongoDB collection marketplace.transactions and the wall       *)
(* clock.  The variable last holds the most recent handler step: its       *)
(* request, its response, and the receipt it wrote.                        *)
(*                                                                         *)
(* Conventions.  A Go string is a sequence of one-character strings.  A Go *)
(* slice is [isNil, elems].  Prices and totals are integer cents (the      *)
(* float64 sums of the modelled carts are exact).  A time is the number of *)
(* clock ticks; one tick is the millisecond resolution a BSON datetime     *)
(* keeps.  A BSON document is a record keyed by the lower-cased field      *)
(* names the driver derives from the untagged struct fields, plus the key  *)
(* "updatedAt" that pay's $set writes.                                     *)
(***************************************************************************)
EXTENDS Integers, Sequences, FiniteSets, TLC

VARIABLES store, nextOid, now, pending, last

vars == <<store, nextOid, now, pending, last>>

----------------------------------------------------------------------------
(* Bounds of the model *)

MaxTx == 2

MaxClock == 1

Workers == {"w1", "w2"}

----------------------------------------------------------------------------
(* Strings, ObjectIDs *)

ObjectIDLen == 12

LowerHex == <<"0","1","2","3","4","5","6","7","8","9","a","b","c","d","e","f">>

UpperHex == <<"0","1","2","3","4","5","6","7","8","9","A","B","C","D","E","F">>

EmptyString == << >>

\* encoding/hex fromHexChar: 0-9, a-f and A-F are digits; anything else is not
HexValue ==
    [c \in {LowerHex[i] : i \in 1..16} \cup {UpperHex[i] : i \in 1..16} |->
        (CHOOSE i \in 1..16 : LowerHex[i] = c \/ UpperHex[i] = c) - 1]

IsHexChar(c) == c \in DOMAIN HexValue

fromHexChar(c) == HexValue[c]

NilObjectID == [i \in 1..ObjectIDLen |-> 0]

\* primitive.ObjectIDFromHex: the 12 bytes, or (NilObjectID, err)
ObjectIDFromHex(s) ==
    IF Len(s) # 2 * ObjectIDLen
    THEN [err |-> TRUE, oid |-> NilObjectID]
    ELSE IF \A i \in 1..Len(s) : IsHexChar(s[i])
         THEN [err |-> FALSE,
               oid |-> [i \in 1..ObjectIDLen |->
                          16 * fromHexChar(s[2 * i - 1]) + fromHexChar(s[2 * i])]]
         ELSE [err |-> TRUE, oid |-> NilObjectID]

\* ObjectID.Hex(): lower-case hexadecimal, two digits a byte
Hex(oid) ==
    [i \in 1..(2 * Len(oid)) |->
        IF i % 2 = 1 THEN LowerHex[(oid[(i + 1) \div 2] \div 16) + 1]
                     ELSE LowerHex[(oid[i \div 2] % 16) + 1]]

\* The n-th identifier the driver generates for a document inserted without
\* _id: 4 bytes of time, 5 bytes fixed per process, a 3 byte counter.  What
\* the model keeps of it: distinct for distinct n, and never NilObjectID.
NewObjectID(n) == <<0, 0, 0, 0, 171, 205, 171, 205, 171, 0, 0, n>>

----------------------------------------------------------------------------
(* Go values *)

NilSlice == [isNil |-> TRUE, elems |-> << >>]

Slice(elems) == [isNil |-> FALSE, elems |-> elems]

\* append(s, x): a nil slice becomes a non-nil one
Append1(s, x) == [isNil |-> FALSE, elems |-> Append(s.elems, x)]

Product(name, price) == [Name |-> name, Price |-> price]

Customer(id) == [ID |-> id]

\* the zero value of Transaction (var transaction Transaction)
ZeroTransaction ==
    [ID |-> EmptyString, CartItems |-> NilSlice, Customer |-> Customer(""),
     Status |-> "", CreatedAt |-> 0, UpdatedAt |-> 0, TotalPrice |-> 0]

\* json.Marshal of a slice: null for a nil slice, an array otherwise
JSONSlice(s) == IF s.isNil THEN [kind |-> "null", elems |-> << >>]
                ELSE [kind |-> "array", elems |-> s.elems]

\* json.Marshal of a Transaction under its json tags
JSONTransaction(t) ==
    [id |-> t.ID, cartItems |-> JSONSlice(t.CartItems), customer |-> t.Customer,
     status |-> t.Status, createdAt |-> t.CreatedAt, updatedAt |-> t.UpdatedAt,
     totalPrice |-> t.TotalPrice]

\* gin.H{"error": ...}
JSONError == [error |-> TRUE]

----------------------------------------------------------------------------
(* calculateTotalPrice *)

RECURSIVE SumFrom(_, _, _)
SumFrom(elems, i, total) ==
    IF i > Len(elems) THEN total
    ELSE SumFrom(elems, i + 1, total + elems[i].Price)

calculateTotalPriceSkipFirst(items) == SumFrom(items.elems, 2, 0)

calculateTotalPrice(items) == SumFrom(items.elems, 1, 0)

----------------------------------------------------------------------------
(* The collection marketplace.transactions *)

OidKey(oid) == [type |-> "oid", v |-> oid]

StrKey(s) == [type |-> "str", v |-> s]

SameKey(a, b) == a.type = b.type /\ a.v = b.v

\* bson.Marshal of a Transaction: _id is omitted when ID is empty (omitempty);
\* the other keys are the lower-cased field names
Marshal(t) ==
    [hasId |-> t.ID # EmptyString, _id |-> StrKey(t.ID),
     cartitems |-> t.CartItems, customer |-> [id |-> t.Customer.ID],
     status |-> t.Status, createdat |-> t.CreatedAt, updatedat |-> t.UpdatedAt,
     updatedAt |-> << >>, totalprice |-> t.TotalPrice]

\* bson.Unmarshal into a Transaction: an ObjectID _id decodes into the string
\* field as its hex form; keys are matched by name and then lower-cased, in
\* document order, so "updatedAt" (written after "updatedat") wins
Decode(d) ==
    [ID |-> IF d._id.type = "oid" THEN Hex(d._id.v) ELSE d._id.v,
     CartItems |-> d.cartitems, Customer |-> Customer(d.customer.id),
     Status |-> d.status, CreatedAt |-> d.createdat,
     UpdatedAt |-> IF d.updatedAt = << >> THEN d.updatedat ELSE d.updatedAt[1],
     TotalPrice |-> d.totalprice]

Index(st, key) ==
    IF \E i \in 1..Len(st) : SameKey(st[i]._id, key)
    THEN CHOOSE i \in 1..Len(st) : SameKey(st[i]._id, key)
    ELSE 0

\* Collection.InsertOne: the driver adds a generated ObjectID when the document
\* has no _id; a duplicate _id or an unreachable store is an error and stores
\* nothing
InsertOne(st, t, n, up) ==
    LET m == Marshal(t)
        d == [_id |-> IF m.hasId THEN m._id ELSE OidKey(NewObjectID(n)),
              cartitems |-> m.cartitems, customer |-> m.customer,
              status |-> m.status, createdat |-> m.createdat,
              updatedat |-> m.updatedat, updatedAt |-> m.updatedAt,
              totalprice |-> m.totalprice]
    IN  IF ~up \/ Index(st, d._id) # 0
        THEN [err |-> TRUE, store |-> st, nextOid |-> n]
        ELSE [err |-> FALSE, store |-> Append(st, d),
              nextOid |-> IF m.hasId THEN n ELSE n + 1]

FindOneAndUpdateOnce(st, oid, t, up) ==
    LET i == Index(st, OidKey(oid))
    IN  IF ~up \/ i = 0 \/ (i # 0 /\ st[i].status = "paid")
        THEN [err |-> TRUE, store |-> st, updatedTransaction |-> ZeroTransaction]
        ELSE LET d == [st[i] EXCEPT !.status = "paid", !.updatedAt = <<t>>]
             IN  [err |-> FALSE, store |-> [st EXCEPT ![i] = d],
                  updatedTransaction |-> Decode(d)]

\* Collection.FindOneAndUpdate({_id: oid}, {$set: {status: "paid", updatedAt: t}},
\* ReturnDocument(After)).Decode(&updatedTransaction): one atomic store
\* operation; ErrNoDocuments when nothing matches (there is no upsert), and
\* then nothing is decoded
FindOneAndUpdate(st, oid, t, up) ==
    LET i == Index(st, OidKey(oid))
    IN  IF ~up \/ i = 0
        THEN [err |-> TRUE, store |-> st, updatedTransaction |-> ZeroTransaction]
        ELSE LET d == [st[i] EXCEPT !.status = "paid", !.updatedAt = <<t>>]
             IN  [err |-> FALSE, store |-> [st EXCEPT ![i] = d],
                  updatedTransaction |-> Decode(d)]

\* Collection.Find({"customer.id": customerId}) and the cursor loop: every
\* matching document, in store order, decoded and appended
RECURSIVE FindFrom(_, _, _, _)
FindFrom(st, customerId, i, transactions) ==
    IF i > Len(st) THEN transactions
    ELSE FindFrom(st, customerId, i + 1,
                  IF st[i].customer.id = customerId
                  THEN Append1(transactions, Decode(st[i]))
                  ELSE transactions)

----------------------------------------------------------------------------
(* Requests *)

Widget == Product("Widget", 999)

Gadget == Product("Gadget", 500)

Refund == Product("Refund", -300)

Abc == <<"a", "b", "c">>

\* JSON bodies of POST /create-transaction as BindJSON leaves them in the
\* struct: any field of Transaction may be supplied by the client
PlainBody ==
    [ZeroTransaction EXCEPT !.CartItems = Slice(<<Widget, Gadget>>),
                            !.Customer = Customer("c1")]

Bodies ==
    { PlainBody,
      [ZeroTransaction EXCEPT !.ID = Hex(NewObjectID(1)), !.Customer = Customer("c2"),
                              !.Status = "paid", !.TotalPrice = 700],
      [ZeroTransaction EXCEPT !.CartItems = Slice(<<Gadget, Refund>>),
                              !.Customer = Customer("c2"), !.Status = "paid",
                              !.TotalPrice = 1499] }

ToUpper(s) ==
    [i \in 1..Len(s) |-> IF IsHexChar(s[i]) THEN UpperHex[fromHexChar(s[i]) + 1] ELSE s[i]]

\* :TransactionId of GET /pay/:TransactionId
PayParams ==
    { Hex(NewObjectID(1)), ToUpper(Hex(NewObjectID(1))), Hex(NewObjectID(2)), Abc }

\* :customerId of GET /transactions/:customerId
CustomerIds == {"c1", "c2"}

\* time.Now(): the wall clock does not run backwards in the model, and two
\* readings may fall in the same tick
ClockReadings(from) == { t \in from..(from + 1) : t <= MaxClock }

----------------------------------------------------------------------------
(* Handlers *)

NoReceipt == [invoked |-> FALSE, err |-> FALSE, items |-> 0, total |-> 0]

NoReq == [busy |-> FALSE, param |-> EmptyString, objectId |-> NilObjectID, t |-> 0]

Init ==
    /\ store = << >>
    /\ nextOid = 1
    /\ now = 0
    /\ pending = [w \in Workers |-> NoReq]
    /\ last = [op |-> "start"]

\* generatePDF: receipt.pdf is written with the item count and the total; an
\* output error is printed and returned to nobody
generatePDF(items, totalPrice, totalNumberOfItems, ok) ==
    [invoked |-> TRUE, err |-> ~ok, items |-> totalNumberOfItems, total |-> totalPrice]

PrepareKeepStatus(body, t1, t2) ==
    [body EXCEPT !.TotalPrice = calculateTotalPrice(body.CartItems),
                 !.Status = IF body.Status = "" THEN "awaiting payment" ELSE body.Status,
                 !.CreatedAt = t1,
                 !.UpdatedAt = t2]

\* createTransaction, lines 140-143
Prepare(body, t1, t2) ==
    [body EXCEPT !.TotalPrice = calculateTotalPrice(body.CartItems),
                 !.Status = "awaiting payment",
                 !.CreatedAt = t1,
                 !.UpdatedAt = t2]

PersistFailOnRender(st, n, transaction, up, renderOk) ==
    LET res == InsertOne(st, transaction, n, up)
        receipt == generatePDF(transaction.CartItems, transaction.TotalPrice,
                               Len(transaction.CartItems.elems), renderOk)
    IN  IF res.err
        THEN [store |-> res.store, nextOid |-> res.nextOid, code |-> 500,
              body |-> JSONError, receipt |-> NoReceipt]
        ELSE IF receipt.err
        THEN [store |-> res.store, nextOid |-> res.nextOid, code |-> 500,
              body |-> JSONError, receipt |-> receipt]
        ELSE [store |-> res.store, nextOid |-> res.nextOid, code |-> 200,
              body |-> [transaction |-> JSONTransaction(transaction)],
              receipt |-> receipt]

\* createTransaction, lines 145-154: insert; on an error respond 500 and stop;
\* otherwise render the receipt and respond 200 with the transaction as it is
\* in the handler (InsertOne's result, the generated id, is dropped)
Persist(st, n, transaction, up, renderOk) ==
    LET res == InsertOne(st, transaction, n, up)
    IN  IF res.err
        THEN [store |-> res.store, nextOid |-> res.nextOid, code |-> 500,
              body |-> JSONError, receipt |-> NoReceipt]
        ELSE [store |-> res.store, nextOid |-> res.nextOid, code |-> 200,
              body |-> [transaction |-> JSONTransaction(transaction)],
              receipt |-> generatePDF(transaction.CartItems, transaction.TotalPrice,
                                      Len(transaction.CartItems.elems), renderOk)]

\* POST /create-transaction with a body among bodies
createTransactionOf(bodies) ==
    /\ Len(store) < MaxTx
    /\ \E bindOk \in BOOLEAN, body \in bodies, up \in BOOLEAN, renderOk \in BOOLEAN :
         IF ~bindOk
         THEN /\ last' = [op |-> "create", bindOk |-> FALSE, req |-> ZeroTransaction,
                          up |-> up,
                          code |-> 400, body |-> JSONError, receipt |-> NoReceipt]
              /\ UNCHANGED <<store, nextOid, now, pending>>
         ELSE \E t1 \in ClockReadings(now) : \E t2 \in ClockReadings(t1) :
                LET out == Persist(store, nextOid, Prepare(body, t1, t2), up, renderOk)
                IN  /\ now' = t2
                    /\ store' = out.store
                    /\ nextOid' = out.nextOid
                    /\ last' = [op |-> "create", bindOk |-> TRUE, req |-> body, up |-> up,
                                code |-> out.code, body |-> out.body,
                                receipt |-> out.receipt]
                    /\ UNCHANGED pending

createTransaction == createTransactionOf(Bodies)

\* getTransactions, lines 162-175
ListResponse(st, customerId, up) ==
    IF ~up THEN [code |-> 500, body |-> JSONError]
    ELSE [code |-> 200, body |-> JSONSlice(FindFrom(st, customerId, 1, NilSlice))]

\* GET /transactions/:customerId
getTransactions ==
    \E customerId \in CustomerIds, up \in BOOLEAN :
      LET out == ListResponse(store, customerId, up)
      IN  /\ last' = [op |-> "list", customerId |-> customerId, up |-> up,
                      code |-> out.code, body |-> out.body]
          /\ UNCHANGED <<store, nextOid, now, pending>>

PaymentResponseSettles(st, formOk) ==
    IF ~formOk THEN [store |-> st, code |-> 400, success |-> FALSE]
    ELSE [store |-> [i \in 1..Len(st) |-> [st[i] EXCEPT !.status = "paid"]],
          code |-> 200, success |-> TRUE]

\* processPayment, lines 124-130: the form is bound and dropped; the store is
\* not called
PaymentResponse(st, formOk) ==
    IF ~formOk THEN [store |-> st, code |-> 400, success |-> FALSE]
    ELSE [store |-> st, code |-> 200, success |-> TRUE]

\* POST /process-payment
processPayment ==
    \E formOk \in BOOLEAN :
      LET out == PaymentResponse(store, formOk)
      IN  /\ store' = out.store
          /\ last' = [op |-> "processPayment", formOk |-> formOk, code |-> out.code,
                      success |-> out.success]
          /\ UNCHANGED <<nextOid, now, pending>>

\* pay, lines 99-110: the error of ObjectIDFromHex is dropped, the clock is read
PayRequest(param, t) ==
    [busy |-> TRUE, param |-> param, objectId |-> ObjectIDFromHex(param).oid, t |-> t]

PayResponseIgnoreErr(res) ==
    [code |-> 200, body |-> JSONTransaction(res.updatedTransaction)]

\* pay, lines 115-120
PayResponse(res) ==
    IF res.err THEN [code |-> 500, body |-> JSONError]
    ELSE [code |-> 200, body |-> JSONTransaction(res.updatedTransaction)]

\* pay, lines 112-120, for the request req
PayStore(req, up) ==
    LET res == FindOneAndUpdate(store, req.objectId, req.t, up)
        out == PayResponse(res)
    IN  /\ store' = res.store
        /\ last' = [op |-> "pay", param |-> req.param, up |-> up,
                    code |-> out.code, body |-> out.body]

\* GET /pay/:TransactionId served without another request in between
pay ==
    \E param \in PayParams, t \in ClockReadings(now), up \in BOOLEAN :
      /\ now' = t
      /\ PayStore(PayRequest(param, t), up)
      /\ UNCHANGED <<nextOid, pending>>

Next ==
    \/ createTransaction
    \/ getTransactions
    \/ processPayment
    \/ pay

Spec == Init /\ [][Next]_vars

----------------------------------------------------------------------------
(* Concurrent pay requests: one worker a request, the store call of each   *)
(* a step of its own                                                       *)

ConcParams == { Hex(NewObjectID(1)), Abc }

createTransactionConc == createTransactionOf({PlainBody})

\* GET /pay/:TransactionId on worker w, up to the store call
payBegin(w) ==
    /\ ~pending[w].busy
    /\ \E param \in ConcParams, t \in ClockReadings(now) :
         /\ now' = t
         /\ pending' = [pending EXCEPT ![w] = PayRequest(param, t)]
    /\ last' = [op |-> "payBegin"]
    /\ UNCHANGED <<store, nextOid>>

\* GET /pay/:TransactionId on worker w, the store call and the response
payUpdate(w) ==
    /\ pending[w].busy
    /\ \E up \in BOOLEAN : PayStore(pending[w], up)
    /\ pending' = [pending EXCEPT ![w] = NoReq]
    /\ UNCHANGED <<nextOid, now>>

payBeginAny == \E w \in Workers : payBegin(w)

payUpdateAny == \E w \in Workers : payUpdate(w)

NextConc ==
    \/ createTransactionConc
    \/ payBeginAny
    \/ payUpdateAny

SpecConc == Init /\ [][NextConc]_vars

----------------------------------------------------------------------------
(* Properties *)

RECURSIVE SumPrices(_)
SumPrices(products) ==
    IF products = << >> THEN 0
    ELSE SumPrices(SubSeq(products, 1, Len(products) - 1)) + products[Len(products)].Price

ToLower(s) ==
    [i \in 1..Len(s) |->
        IF \E k \in 1..16 : UpperHex[k] = s[i]
        THEN LowerHex[CHOOSE k \in 1..16 : UpperHex[k] = s[i]]
        ELSE s[i]]

\* the id under which a stored document is returned by pay and by the listing
StoredId(d) == Decode(d).ID

\* param names the stored document d: a well-formed identifier (24 hexadecimal
\* digits) that is the store-assigned identifier of d
Names(param, d) ==
    /\ Len(param) = 2 * ObjectIDLen
    /\ d._id.type = "oid"
    /\ ToLower(param) = Hex(d._id.v)

Resolves(st, param) == \E i \in 1..Len(st) : Names(param, st[i])

CreateSucceeded == last.op = "create" /\ last.code = 200

\* C1: a successful create-transaction returns the store-assigned id: the id of
\* the response is not empty and is the id under which the record was stored.
C1_ResponseCarriesStoredId ==
    CreateSucceeded =>
        /\ last.body.transaction.id # EmptyString
        /\ store # << >>
        /\ last.body.transaction.id = StoredId(store[Len(store)])

\* C2: whatever the create body supplied, a pay request carrying the stored id
\* of a transaction that awaits payment succeeds (the store being reachable)
\* and returns the updated record: status "paid", updatedAt strictly greater
\* than before, createdAt unchanged.
C2_PayByStoredIdSucceeds ==
    [][ \A i \in 1..Len(store) :
          ( /\ last'.op = "pay"
            /\ last'.up
            /\ last'.param = StoredId(store[i])
            /\ store[i].status = "awaiting payment" )
          => /\ last'.code = 200
             /\ last'.body.id = last'.param
             /\ last'.body.status = "paid"
             /\ store'[i].status = "paid"
             /\ last'.body.updatedAt > Decode(store[i]).UpdatedAt
             /\ last'.body.createdAt = Decode(store[i]).CreatedAt ]_vars

\* C3: status is monotonic.  A stored transaction that is "paid" stays stored
\* and "paid" in every later state; a transaction becomes "paid" only in a pay
\* step that succeeds on its id, so a transaction is never created "paid",
\* whatever status the create body supplied.
C3_StatusMonotonic ==
    [][ /\ \A i \in 1..Len(store) :
             store[i].status = "paid" =>
                /\ i <= Len(store')
                /\ store'[i]._id = store[i]._id
                /\ store'[i].status = "paid"
        /\ \A i \in 1..Len(store') :
             ( /\ store'[i].status # "awaiting payment"
               /\ (i > Len(store) \/ store[i].status # "paid") )
             => /\ store'[i].status = "paid"
                /\ i <= Len(store)
                /\ last'.op = "pay"
                /\ last'.code = 200
                /\ last'.body.id = StoredId(store'[i])
                /\ Names(last'.param, store[i]) ]_vars

C3_Witness ==
    /\ last.op = "processPayment"
    /\ \E i, j \in 1..Len(store) :
         /\ store[i].status = "paid"
         /\ store[j].status = "awaiting payment"
         /\ store[j].customer.id = "c2"

\* C4: every stored transaction's totalPrice is the sum of the prices of its
\* cartItems (0 for an empty cart), whatever totalPrice the create body
\* supplied and whether or not the transaction was paid later; create returns
\* that sum.
C4_TotalIsSum ==
    /\ \A i \in 1..Len(store) :
         store[i].totalprice = SumPrices(store[i].cartitems.elems)
    /\ CreateSucceeded =>
         /\ last.body.transaction.totalPrice = SumPrices(last.req.CartItems.elems)
         /\ last.body.transaction.totalPrice = store[Len(store)].totalprice

C4_Witness ==
    /\ CreateSucceeded
    /\ last.req.TotalPrice # last.body.transaction.totalPrice
    /\ \E i \in 1..Len(store) :
         /\ store[i].status = "paid"
         /\ Len(store[i].cartitems.elems) = 2
         /\ store[i].totalprice = 1499

\* C5: a pay request whose id is not well formed, or does not resolve to a stored
\* transaction, gets an error response, never a success, and leaves the store
\* as it was.
C5_UnknownIdFailsExplicitly ==
    [][ (last'.op = "pay" /\ ~Resolves(store, last'.param))
        => /\ last'.code = 500
           /\ last'.body = JSONError
           /\ store' = store ]_vars

C5_Witness ==
    /\ last.op = "pay"
    /\ last.up
    /\ last.param = Abc
    /\ last.code = 500
    /\ \E i \in 1..Len(store) : store[i]._id.type = "oid"

\* C6: the listing for customer c (the store being reachable) succeeds with a
\* sequence of exactly the stored transactions whose customer.id is c, each
\* under its stored id; for a customer without transactions that is the empty
\* sequence.
C6_ListIsExact ==
    (last.op = "list" /\ last.up) =>
        LET mine == { i \in 1..Len(store) : store[i].customer.id = last.customerId }
        IN  /\ last.code = 200
            /\ last.body.kind = "array"
            /\ Len(last.body.elems) = Cardinality(mine)
            /\ \A i \in mine : \E k \in 1..Len(last.body.elems) :
                   last.body.elems[k] = Decode(store[i])
            /\ \A k \in 1..Len(last.body.elems) :
                   last.body.elems[k].Customer.ID = last.customerId

\* C7: persistence alone decides create-transaction.  If the insert fails (the
\* store is unreachable, or the supplied id is taken) the response is an error,
\* no receipt is rendered and the store is as before; if it succeeds, the
\* receipt render is invoked and the response is a success with the
\* transaction, also when the render fails.
C7_PersistenceDecidesCreate ==
    [][ (last'.op = "create" /\ last'.bindOk) =>
          IF \/ ~last'.up
             \/ \E i \in 1..Len(store) :
                   /\ last'.req.ID # EmptyString
                   /\ store[i]._id = StrKey(last'.req.ID)
          THEN /\ last'.code = 500
               /\ last'.body = JSONError
               /\ ~last'.receipt.invoked
               /\ store' = store
          ELSE /\ last'.code = 200
               /\ last'.receipt.invoked
               /\ Len(store') = Len(store) + 1
               /\ SubSeq(store', 1, Len(store)) = store
               /\ last'.body.transaction.customer = last'.req.Customer
               /\ last'.body.transaction.cartItems = JSONSlice(last'.req.CartItems) ]_vars

C7_Witness ==
    /\ CreateSucceeded
    /\ last.receipt.invoked
    /\ last.receipt.err
    /\ Len(store) = 2

\* C8: a process-payment request with a well-shaped form succeeds, and no
\* process-payment request changes the store: a transaction that awaits payment
\* still does afterwards.
C8_ProcessPaymentChangesNothing ==
    [][ last'.op = "processPayment" =>
          /\ store' = store
          /\ last'.formOk => (last'.code = 200 /\ last'.success) ]_vars

C8_Witness ==
    /\ last.op = "processPayment"
    /\ last.formOk
    /\ \E i \in 1..Len(store) : store[i].status = "awaiting payment"

\* C9: with pay requests in flight on several workers, each store call of a pay
\* on an existing transaction (the store being reachable) is one atomic
\* update: it succeeds, returns the record with status "paid", and leaves the
\* stored record "paid" with updatedAt the timestamp of this request, every
\* other field and every other record unchanged; so the last update applied
\* decides the stored updatedAt.
C9_ConcurrentPayAtomic ==
    [][ \A w \in Workers : \A i \in 1..Len(store) :
          ( /\ pending[w].busy
            /\ ~pending'[w].busy
            /\ last'.up
            /\ Names(pending[w].param, store[i]) )
          => /\ last'.op = "pay"
             /\ last'.code = 200
             /\ last'.body.status = "paid"
             /\ last'.body.updatedAt = pending[w].t
             /\ last'.body.id = StoredId(store[i])
             /\ store' = [store EXCEPT ![i] = [store[i] EXCEPT !.status = "paid",
                                                              !.updatedAt = <<pending[w].t>>]] ]_vars

C9_Witness ==
    /\ last.op = "pay"
    /\ last.code = 200
    /\ \E w \in Workers : \E i \in 1..Len(store) :
         /\ pending[w].busy
         /\ Names(pending[w].param, store[i])
         /\ last.body.id = StoredId(store[i])
         /\ store[i].updatedAt = <<last.body.updatedAt>>
         /\ pending[w].t < last.body.updatedAt

\* C10: createdAt and updatedAt of a created transaction are one reading of the
\* clock: a stored transaction that was not paid has createdAt = updatedAt and
\* status "awaiting payment".
C10_CreatedEqualsUpdated ==
    \A i \in 1..Len(store) :
        store[i].status # "paid" =>
           /\ store[i].status = "awaiting payment"
           /\ Decode(store[i]).CreatedAt = Decode(store[i]).UpdatedAt

====
